---- MODULE Spec2Model ----
(***************************************************************************)
(* Model of the text-transfer-tracker server: the POST /api/communities    *)
(* handler (validate, transform, notify, persist, respond), the GET        *)
(* /api/communities handler and the in-memory store MemStorage.            *)
(*                                                                         *)
(* A JavaScript string is a sequence of one-character strings, so that     *)
(* split, trim, template concatenation and re-parsing are computed and     *)
(* not assumed.                                                            *)
(***************************************************************************)
EXTENDS Integers, Sequences, FiniteSets, TLC

\* ------------------------------------------------------------------------
\* Bounds of the model
\* ------------------------------------------------------------------------

\* number of POST /api/communities requests that may be in flight
MaxReq == 2

\* number of direct calls of createUser, and of createCommunity, on the store alone
MaxCalls == 3

\* the clock reads 0..MaxClock milliseconds after the epoch
MaxClock == 1

\* longest textContent enumerated for the pure functions
MaxLen == 3

\* ------------------------------------------------------------------------
\* Strings
\* ------------------------------------------------------------------------

Digits == <<"0", "1", "2", "3", "4", "5", "6", "7", "8", "9">>

DigitChars == {Digits[i] : i \in 1..10}

\* String.prototype.trim strips these (the ones the model's inputs can hold)
WhiteChars == {" ", "\n", "\t", "\r"}

RECURSIVE Concat(_)
\* the concatenation of a sequence of strings
Concat(parts) ==
    IF parts = <<>> THEN <<>> ELSE Head(parts) \o Concat(Tail(parts))

RECURSIVE NumberToString(_)
\* `${n}` for an integer n >= 0: its decimal digits
NumberToString(n) ==
    IF n < 10 THEN <<Digits[n + 1]>>
    ELSE NumberToString(n \div 10) \o <<Digits[(n % 10) + 1]>>

\* n as three decimal digits (the millisecond field of an ISO timestamp)
Pad3(n) ==
    <<Digits[((n \div 100) % 10) + 1], Digits[((n \div 10) % 10) + 1],
      Digits[(n % 10) + 1]>>

LitEpoch ==
    <<"1", "9", "7", "0", "-", "0", "1", "-", "0", "1", "T", "0", "0", ":", "0",
    "0", ":", "0", "0", ".">>

\* new Date(t).toISOString() for 0 <= t < 1000 milliseconds after the epoch
ToISOString(t) ==
    LitEpoch \o Pad3(t) \o <<"Z">>

RECURSIVE TrimStart(_)
TrimStart(s) ==
    IF s # <<>> /\ Head(s) \in WhiteChars THEN TrimStart(Tail(s)) ELSE s

RECURSIVE TrimEnd(_)
TrimEnd(s) ==
    IF s # <<>> /\ s[Len(s)] \in WhiteChars
    THEN TrimEnd(SubSeq(s, 1, Len(s) - 1))
    ELSE s

\* line.trim()
Trim(s) ==
    TrimEnd(TrimStart(s))

\* a JavaScript string is truthy iff it is not empty
Truthy(s) ==
    Len(s) > 0

\* the positions of the character sep in s
SeparatorsIn(s, sep) == {i \in 1..Len(s) : s[i] = sep}

\* the k-th smallest element of the set of positions P
Nth(P, k) == CHOOSE p \in P : Cardinality({q \in P : q < p}) = k - 1

\* s.split(sep) for a one-character separator: the pieces between the occurrences
\* of sep, one more than there are occurrences: "" gives [""], "a\n" gives ["a", ""]
Split(s, sep) ==
    LET P == SeparatorsIn(s, sep)
        n == Cardinality(P) + 1
        from(k) == IF k = 1 THEN 1 ELSE Nth(P, k - 1) + 1
        to(k) == IF k = n THEN Len(s) ELSE Nth(P, k) - 1 IN
    [k \in 1..n |-> SubSeq(s, from(k), to(k))]

\* ------------------------------------------------------------------------
\* shared/schema.ts: createCommunitySchema
\* ------------------------------------------------------------------------

\* the keys of createCommunitySchema, in declaration order
FieldNames ==
    <<"rename", "robuxFund", "communitiesMember", "ownerUsername", "textContent">>

\* the second argument of each .min(1, message)
MinMessage(field) ==
    CASE field = "rename" -> "Rename is required"
      [] field = "robuxFund" -> "Robux Fund is required"
      [] field = "communitiesMember" -> "Communities Member is required"
      [] field = "ownerUsername" -> "Owner Username is required"
      [] field = "textContent" -> "Communities text content is required"

\* A JSON value of the request body, as far as z.string() tells values apart:
\* an absent key, a value that is no string, a string.
Undefined == [kind |-> "undefined", str |-> <<>>]

NotAString == [kind |-> "number", str |-> <<>>]

StringValue(s) == [kind |-> "string", str |-> s]

\* the issue z.string() reports for a value that is no string
InvalidTypeMessage(v) ==
    IF v.kind = "undefined" THEN "Required"
    ELSE "Expected string, received number"

\* z.string().min(1, message) on one key: the issues it adds, none when it passes
FieldIssues(field, v) ==
    IF v.kind # "string"
    THEN <<[code |-> "invalid_type", path |-> field, message |-> InvalidTypeMessage(v)]>>
    ELSE IF Len(v.str) < 1
    THEN <<[code |-> "too_small", path |-> field, message |-> MinMessage(field)]>>
    ELSE <<>>

\* z.object({...}) checks every key and collects the issues in key order
SchemaIssues(body) ==
    Concat([i \in 1..Len(FieldNames) |-> FieldIssues(FieldNames[i], body[FieldNames[i]])])

\* the keys createCommunitySchema declares
SchemaKeys == {FieldNames[i] : i \in 1..Len(FieldNames)}

\* createCommunitySchema.parse(body): the validated data, or a ZodError with the
\* issues. z.object() is not strict: a key of the body the schema does not declare
\* is not checked and is left out of the data.
Parse(body) ==
    LET issues == SchemaIssues(body) IN
    IF issues = <<>>
    THEN [ok |-> TRUE, issues |-> <<>>,
          data |-> [f \in SchemaKeys |-> body[f].str]]
    ELSE [ok |-> FALSE, issues |-> issues,
          data |-> [f \in SchemaKeys |-> <<>>]]

\* ------------------------------------------------------------------------
\* The webhook variant of createCommunitySchema: its discordWebhook key
\* ------------------------------------------------------------------------

Letters ==
    {"a", "b", "c", "d", "e", "f", "g", "h", "i", "j", "k", "l", "m", "n", "o", "p",
     "q", "r", "s", "t", "u", "v", "w", "x", "y", "z"}

LitHttps == <<"h", "t", "t", "p", "s">>

LitWebhookSegment ==
    <<"d", "i", "s", "c", "o", "r", "d", ".", "c", "o", "m", "/", "a", "p", "i", "/",
    "w", "e", "b", "h", "o", "o", "k", "s">>

\* String.prototype.includes
Includes(s, sub) ==
    \E i \in 1..(Len(s) - Len(sub) + 1) : SubSeq(s, i, i + Len(sub) - 1) = sub

\* whether new URL(s) returns (the check behind z.string().url()), for the schemes
\* the model's inputs use: letters up to a colon, and an https URL needs a host
\* after the slashes
IsUrl(s) ==
    LET colons == SeparatorsIn(s, ":") IN
    /\ colons # {}
    /\ LET c == Nth(colons, 1)
           scheme == SubSeq(s, 1, c - 1)
           rest == SubSeq(s, c + 1, Len(s))
           host == SelectSeq(rest, LAMBDA ch : ch # "/") IN
       /\ scheme # <<>>
       /\ \A i \in 1..Len(scheme) : scheme[i] \in Letters
       /\ scheme = LitHttps => (host # <<>> /\ Head(host) \notin {"?", "#", ":"})

\* z.string().url("Invalid webhook URL").refine(url =>
\* url.includes('discord.com/api/webhooks'), "Must be a valid Discord webhook URL")
\* on the key discordWebhook: a failed url check leaves the string dirty, not
\* aborted, so the refinement runs as well
WebhookIssues(v) ==
    IF v.kind # "string"
    THEN <<[code |-> "invalid_type", path |-> "discordWebhook",
            message |-> InvalidTypeMessage(v)]>>
    ELSE (IF IsUrl(v.str) THEN <<>>
          ELSE <<[code |-> "invalid_string", path |-> "discordWebhook",
                  message |-> "Invalid webhook URL"]>>)
         \o (IF Includes(v.str, LitWebhookSegment) THEN <<>>
             ELSE <<[code |-> "custom", path |-> "discordWebhook",
                     message |-> "Must be a valid Discord webhook URL"]>>)

\* ------------------------------------------------------------------------
\* server/routes.ts: generateCommunityFile
\* ------------------------------------------------------------------------

LitGenerated ==
    <<"#", " ", "C", "o", "m", "m", "u", "n", "i", "t", "y", " ", "C", "o", "n",
    "f", "i", "g", "u", "r", "a", "t", "i", "o", "n", " ", "G", "e", "n", "e",
    "r", "a", "t", "e", "d", " ", "o", "n", " ">>

LitRename ==
    <<"#", " ", "R", "e", "n", "a", "m", "e", ":", " ">>

LitRobuxFund ==
    <<"#", " ", "R", "o", "b", "u", "x", " ", "F", "u", "n", "d", ":", " ">>

LitMember ==
    <<"#", " ", "C", "o", "m", "m", "u", "n", "i", "t", "i", "e", "s", " ", "M",
    "e", "m", "b", "e", "r", ":", " ">>

LitOwner ==
    <<"#", " ", "O", "w", "n", "e", "r", " ", "U", "s", "e", "r", "n", "a", "m",
    "e", ":", " ">>

LitOriginal ==
    <<"#", " ", "O", "r", "i", "g", "i", "n", "a", "l", " ", "C", "o", "m", "m",
    "u", "n", "i", "t", "i", "e", "s", " ", "D", "a", "t", "a", ":", "\n">>

LitComplete ==
    <<"\n", "#", " ", "P", "r", "o", "c", "e", "s", "s", "i", "n", "g", " ",
    "C", "o", "m", "p", "l", "e", "t", "e", "\n">>

LitTotal ==
    <<"#", " ", "T", "o", "t", "a", "l", " ", "C", "o", "m", "m", "u", "n", "i",
    "t", "i", "e", "s", ":", " ">>

NL == <<"\n">>

\* the predicate of the filter: line => line.trim()
KeepLine(line) ==
    Truthy(Trim(line))

\* originalContent.split('\n').filter(line => line.trim())
RetainedLines(originalContent) ==
    SelectSeq(Split(originalContent, "\n"), KeepLine)

\* the template of the forEach body: `${index + 1}. ${line}\n`, index from 0
NumberedLine(index, line) ==
    NumberToString(index + 1) \o <<".", " ">> \o line \o NL

\* Mutant of generateCommunityFile: the closing lines carry the time as well
generateCommunityFileStamped(originalContent, formData, t) ==
    LET lines == RetainedLines(originalContent) IN
    LitGenerated \o ToISOString(t) \o NL
    \o LitRename \o formData.rename \o NL
    \o LitRobuxFund \o formData.robuxFund \o NL
    \o LitMember \o formData.communitiesMember \o NL
    \o LitOwner \o formData.ownerUsername \o NL \o NL
    \o LitOriginal
    \o Concat([i \in 1..Len(lines) |-> NumberedLine(i - 1, lines[i])])
    \o LitComplete
    \o LitTotal \o NumberToString(Len(lines)) \o <<" ">> \o ToISOString(t) \o NL

\* generateCommunityFile(originalContent, formData), the clock reading t
generateCommunityFile(originalContent, formData, t) ==
    LET lines == RetainedLines(originalContent) IN
    LitGenerated \o ToISOString(t) \o NL
    \o LitRename \o formData.rename \o NL
    \o LitRobuxFund \o formData.robuxFund \o NL
    \o LitMember \o formData.communitiesMember \o NL
    \o LitOwner \o formData.ownerUsername \o NL \o NL
    \o LitOriginal
    \o Concat([i \in 1..Len(lines) |-> NumberedLine(i - 1, lines[i])])
    \o LitComplete
    \o LitTotal \o NumberToString(Len(lines)) \o NL

\* ------------------------------------------------------------------------
\* State
\* ------------------------------------------------------------------------

VARIABLES
    users,              \* MemStorage.users: the Map's entries in insertion order
    communities,        \* MemStorage.communities: the Map's entries in insertion order
    currentUserId,      \* MemStorage.currentUserId
    currentCommunityId, \* MemStorage.currentCommunityId
    webhookUrl,         \* process.env.DISCORD_WEBHOOK_URL ("" when not set)
    now,                \* the last reading of the clock
    pc,                 \* per POST request: where its handler is suspended
    body,               \* per POST request: req.body
    gen,                \* per POST request: the handler's generatedContent, while it runs
    upstream,           \* per POST request: the fetch Response, while its text is read
    form,               \* per POST request: the webhook POST in flight (<<>>: none)
    resp,               \* per POST request: the response sent (status 0: none yet)
    steps,              \* per POST request: the steps its handler has taken, in order
    nsent,              \* per POST request: how many responses were sent
    nposts,             \* per POST request: how many POSTs it issued to the webhook
    createLog,          \* createCommunity calls, in order: the caller, the community returned
    userLog,            \* createUser calls, in order: [username, id]
    getPc,              \* the GET handler: "idle", "await", "done" (response sent)
    getList,            \* the GET handler's communities array
    fnPc,               \* the pure functions under test: "in", "parsed", "generated"
    fnBody,             \* the body given to createCommunitySchema.parse
    fnParsed,           \* what parse returned
    fnTime,             \* the clock reading given to generateCommunityFile
    fnGen,              \* what generateCommunityFile returned
    fnAgain             \* a second call with the same arguments: its clock reading, its result

storeVars == <<users, communities, currentUserId, currentCommunityId>>

reqVars == <<pc, body, gen, upstream, form, resp, steps, nsent, nposts>>

getVars == <<getPc, getList>>

fnVars == <<fnPc, fnBody, fnParsed, fnTime, fnGen, fnAgain>>

vars ==
    <<users, communities, currentUserId, currentCommunityId, webhookUrl, now,
      pc, body, gen, upstream, form, resp, steps, nsent, nposts, createLog, userLog,
      getPc, getList, fnPc, fnBody, fnParsed, fnTime, fnGen, fnAgain>>

Reqs == 1..MaxReq

\* ------------------------------------------------------------------------
\* A JavaScript Map: its entries in insertion order
\* ------------------------------------------------------------------------

MapKeys(m) == {m[i].key : i \in 1..Len(m)}

MapHas(m, k) == k \in MapKeys(m)

\* Map.prototype.get: the value under k (call only when MapHas)
MapGet(m, k) ==
    LET i == CHOOSE j \in 1..Len(m) : m[j].key = k IN m[i].value

\* Map.prototype.set: replaces the value of an existing key in place, else appends
MapSet(m, k, v) ==
    IF MapHas(m, k)
    THEN [i \in 1..Len(m) |-> IF m[i].key = k THEN [key |-> k, value |-> v] ELSE m[i]]
    ELSE Append(m, [key |-> k, value |-> v])

\* Array.from(map.values())
MapValues(m) == [i \in 1..Len(m) |-> m[i].value]

\* ------------------------------------------------------------------------
\* server/storage.ts: MemStorage
\* ------------------------------------------------------------------------

\* Mutant of PostIncrement: the counter is read and never advanced
NoIncrement(counter) ==
    [value |-> counter, counter |-> counter]

\* Mutant of PostIncrement: ++counter, the value yielded is the incremented one
PreIncrement(counter) ==
    [value |-> counter + 1, counter |-> counter + 1]

\* counter++: the value the expression yields and the counter afterwards
PostIncrement(counter) ==
    [value |-> counter, counter |-> counter + 1]

\* { ...insertUser, id }
NewUser(insertUser, id) ==
    [id |-> id, username |-> insertUser.username, password |-> insertUser.password]

\* { ...insertCommunity, id, createdAt: new Date() }
NewCommunity(insertCommunity, id, t) ==
    [id |-> id,
     rename |-> insertCommunity.rename,
     robuxFund |-> insertCommunity.robuxFund,
     communitiesMember |-> insertCommunity.communitiesMember,
     ownerUsername |-> insertCommunity.ownerUsername,
     originalContent |-> insertCommunity.originalContent,
     generatedContent |-> insertCommunity.generatedContent,
     createdAt |-> t]

\* MemStorage.getUser
getUser(id) ==
    IF MapHas(users, id) THEN <<MapGet(users, id)>> ELSE <<>>

\* MemStorage.getUserByUsername: the first user in iteration order with that name
getUserByUsername(username) ==
    LET found == SelectSeq(MapValues(users), LAMBDA u : u.username = username) IN
    IF found = <<>> THEN <<>> ELSE <<Head(found)>>

\* MemStorage.getCommunity (<<>> is undefined)
getCommunity(id) ==
    IF MapHas(communities, id) THEN <<MapGet(communities, id)>> ELSE <<>>

\* Mutant of getAllCommunities: only the first record is returned
getAllCommunitiesFirstOnly ==
    IF communities = <<>> THEN <<>> ELSE <<MapValues(communities)[1]>>

\* MemStorage.getAllCommunities
getAllCommunities ==
    MapValues(communities)

\* MemStorage.createUser: the store after the call; the user returned is
\* NewUser(insertUser, currentUserId)
createUser(insertUser) ==
    LET inc == PostIncrement(currentUserId)
        user == NewUser(insertUser, inc.value) IN
    /\ currentUserId' = inc.counter
    /\ users' = MapSet(users, inc.value, user)
    /\ userLog' = Append(userLog, [username |-> insertUser.username, id |-> user.id])

\* Mutant of createCommunity: the incremented counter is written back only when the
\* call's promise is awaited, so a call made while another request is suspended
\* there reads the identifier that request took
createCommunityDeferred(r, insertCommunity, t) ==
    LET id == IF \E q \in DOMAIN pc : pc[q] = "stored"
              THEN currentCommunityId - 1 ELSE currentCommunityId
        community == NewCommunity(insertCommunity, id, t) IN
    /\ currentCommunityId' = id + 1
    /\ communities' = MapSet(communities, id, community)
    /\ createLog' = Append(createLog, [req |-> r, id |-> community.id, community |-> community])

\* Mutant of createCommunity: the counter is read and not advanced, so the next
\* call stores its record under the same identifier
createCommunitySameId(r, insertCommunity, t) ==
    LET id == currentCommunityId
        community == NewCommunity(insertCommunity, id, t) IN
    /\ currentCommunityId' = id
    /\ communities' = MapSet(communities, id, community)
    /\ createLog' = Append(createLog, [req |-> r, id |-> community.id, community |-> community])

\* Mutant of createCommunity: the record is stored under the counter's value after
\* the increment, not under its own identifier
createCommunityWrongKey(r, insertCommunity, t) ==
    LET inc == PostIncrement(currentCommunityId)
        community == NewCommunity(insertCommunity, inc.value, t) IN
    /\ currentCommunityId' = inc.counter
    /\ communities' = MapSet(communities, inc.counter, community)
    /\ createLog' = Append(createLog, [req |-> r, id |-> community.id, community |-> community])

\* MemStorage.createCommunity called by request r at clock reading t
createCommunity(r, insertCommunity, t) ==
    LET inc == PostIncrement(currentCommunityId)
        community == NewCommunity(insertCommunity, inc.value, t) IN
    /\ currentCommunityId' = inc.counter
    /\ communities' = MapSet(communities, inc.value, community)
    /\ createLog' = Append(createLog, [req |-> r, id |-> community.id, community |-> community])

\* ------------------------------------------------------------------------
\* The environment: request bodies, the webhook service, the clock
\* ------------------------------------------------------------------------

\* process.env.DISCORD_WEBHOOK_URL: not set (or empty), or set
NoUrl == <<>>

SomeUrl == <<"https://discord.com/api/webhooks/1/token">>

TextA == <<"a", "\n", "\n", "b">>

RenameA == <<"A">>

\* a label holding a line break
RenameTwoLines == <<"A", "\n", "1", ".", " ", "x">>

MakeBody(rename, text) ==
    [rename |-> rename,
     robuxFund |-> StringValue(<<"1", "0", "0">>),
     communitiesMember |-> StringValue(<<"m", "1">>),
     ownerUsername |-> StringValue(<<"o">>),
     textContent |-> text]

\* the bodies the POST requests of the server model carry
Bodies ==
    {MakeBody(StringValue(RenameA), StringValue(TextA)),
     MakeBody(StringValue(RenameTwoLines), StringValue(<<"a">>)),
     MakeBody(Undefined, StringValue(TextA))}

\* the body b with the key discordWebhook added to it
WithWebhook(b, hook) ==
    [f \in DOMAIN b \cup {"discordWebhook"} |->
        IF f = "discordWebhook" THEN hook ELSE b[f]]

HookNotAUrl == <<"n", "o", "p", "e">>

\* a URL without the webhook path segment
HookElsewhere ==
    <<"h", "t", "t", "p", "s", ":", "/", "/", "e", "x", ".", "i", "o", "/", "h">>

\* a URL with the webhook path segment
HookDiscord ==
    <<"h", "t", "t", "p", "s", ":", "/", "/">> \o LitWebhookSegment \o <<"/", "1", "/", "t">>

\* the webhook path segment in a string that is no URL
HookSegmentOnly == LitWebhookSegment

\* the bodies that carry a discordWebhook key
HookBodies ==
    {WithWebhook(MakeBody(StringValue(RenameA), StringValue(TextA)), StringValue(h))
       : h \in {HookNotAUrl, HookElsewhere, HookDiscord, HookSegmentOnly}}

\* what fetch can resolve with: response.ok is status in 200..299
UpstreamResponses ==
    {[ok |-> TRUE, status |-> <<"204">>, statusText |-> <<"No Content">>],
     [ok |-> FALSE, status |-> <<"404">>, statusText |-> <<"Not Found">>]}

\* what response.text() can resolve with
UpstreamTexts ==
    {<<"{\"message\": \"Unknown Webhook\", \"code\": 10015}">>}

\* the messages of the errors fetch can reject with
RejectMessages ==
    {<<"fetch failed">>}

\* the messages of the errors response.text() can reject with
TextRejectMessages ==
    {<<"terminated">>}

\* the readings the clock can give next: time does not run backwards
ClockReadings ==
    {t \in {now, now + 1} : t <= MaxClock}

InsertUsers ==
    [username : {"u1", "u2"}, password : {"p"}]

\* ------------------------------------------------------------------------
\* server/routes.ts: the POST /api/communities handler
\* ------------------------------------------------------------------------

NoResponse ==
    [status |-> 0, success |-> FALSE, message |-> <<>>, errors |-> <<>>,
     communityId |-> 0]

NoUpstream ==
    [ok |-> TRUE, status |-> <<>>, statusText |-> <<>>]

\* new Error(message)
Error(message) ==
    [isError |-> TRUE, message |-> message]

\* res.status(400).json({success: false, message: "Validation error", errors})
ValidationResponse(issues) ==
    [status |-> 400, success |-> FALSE, message |-> <<"Validation error">>,
     errors |-> issues, communityId |-> 0]

\* res.status(500).json({success: false,
\*   message: error instanceof Error ? error.message : "Failed to create community"})
FailureResponse(error) ==
    [status |-> 500, success |-> FALSE,
     message |-> IF error.isError THEN error.message
                 ELSE <<"Failed to create community">>,
     errors |-> <<>>, communityId |-> 0]

\* res.json({success: true, message: "...", communityId: community.id})
SuccessResponse(id) ==
    [status |-> 200, success |-> TRUE,
     message |-> <<"Community file generated and sent to Discord successfully!">>,
     errors |-> <<>>, communityId |-> id]

\* the error thrown at routes.ts:138 for a response that is not ok
DiscordApiError(response, errorText) ==
    Error(<<"Discord API error: ">> \o response.status \o <<" ">>
          \o response.statusText \o <<" - ">> \o errorText)

\* the error the catch of sendToDiscordWebhook throws in place of the one caught
SendFailure(error) ==
    Error(<<"Failed to send to Discord: ">>
          \o (IF error.isError THEN error.message ELSE <<"Unknown error">>))

\* the handler sends `response` and ends: its local variables are gone
Send(r, response, log) ==
    /\ resp' = [resp EXCEPT ![r] = response]
    /\ gen' = [gen EXCEPT ![r] = <<>>]
    /\ upstream' = [upstream EXCEPT ![r] = NoUpstream]
    /\ nsent' = [nsent EXCEPT ![r] = @ + 1]
    /\ steps' = [steps EXCEPT ![r] = @ \o log]
    /\ pc' = [pc EXCEPT ![r] = "done"]

\* Mutant of Post: the result of the validation is not looked at
PostUnchecked(r, b, t) ==
    /\ pc[r] = "idle"
    /\ \A q \in Reqs : q < r => pc[q] # "idle"
    /\ body' = [body EXCEPT ![r] = b]
    /\ LET data == [f \in DOMAIN b |-> b[f].str]
           generatedContent == generateCommunityFile(data.textContent, data, t) IN
       /\ now' = t
       /\ IF ~Truthy(webhookUrl)
          THEN /\ Send(r, FailureResponse(Error(<<"Discord webhook URL not configured">>)),
                       <<"validate", "transform", "respond">>)
               /\ UNCHANGED <<form, nposts>>
          ELSE /\ gen' = [gen EXCEPT ![r] = generatedContent]
               /\ form' = [form EXCEPT ![r] =
                      <<[url |-> webhookUrl, file |-> generatedContent,
                         rename |-> data.rename]>>]
               /\ nposts' = [nposts EXCEPT ![r] = @ + 1]
               /\ steps' = [steps EXCEPT ![r] = @ \o <<"validate", "transform", "notify">>]
               /\ pc' = [pc EXCEPT ![r] = "fetch"]
               /\ UNCHANGED <<resp, nsent, upstream>>
    /\ UNCHANGED <<storeVars, webhookUrl, createLog, userLog, getVars, fnVars>>

\* Mutant of Post: process.env.DISCORD_WEBHOOK_URL is handed to sendToDiscordWebhook
\* without being looked at
PostUnconfigured(r, b, t) ==
    /\ pc[r] = "idle"
    /\ \A q \in Reqs : q < r => pc[q] # "idle"
    /\ body' = [body EXCEPT ![r] = b]
    /\ LET parsed == Parse(b) IN
       IF ~parsed.ok
       THEN /\ Send(r, ValidationResponse(parsed.issues), <<"validate", "respond">>)
            /\ UNCHANGED <<now, form, nposts>>
       ELSE LET generatedContent ==
                    generateCommunityFile(parsed.data.textContent, parsed.data, t) IN
            /\ now' = t
            /\ gen' = [gen EXCEPT ![r] = generatedContent]
            /\ form' = [form EXCEPT ![r] =
                   <<[url |-> webhookUrl, file |-> generatedContent,
                      rename |-> parsed.data.rename]>>]
            /\ nposts' = [nposts EXCEPT ![r] = @ + 1]
            /\ steps' = [steps EXCEPT ![r] = @ \o <<"validate", "transform", "notify">>]
            /\ pc' = [pc EXCEPT ![r] = "fetch"]
            /\ UNCHANGED <<resp, nsent, upstream>>
    /\ UNCHANGED <<storeVars, webhookUrl, createLog, userLog, getVars, fnVars>>

\* The handler of request r from its start to its first suspension: parse,
\* generateCommunityFile, the configuration check, and sendToDiscordWebhook up to
\* the fetch it awaits. t is the clock reading of new Date(). Requests are
\* numbered in their order of arrival.
Post(r, b, t) ==
    /\ pc[r] = "idle"
    /\ \A q \in Reqs : q < r => pc[q] # "idle"
    /\ body' = [body EXCEPT ![r] = b]
    /\ LET parsed == Parse(b) IN
       IF ~parsed.ok
       THEN /\ Send(r, ValidationResponse(parsed.issues), <<"validate", "respond">>)
            /\ UNCHANGED <<now, form, nposts>>
       ELSE LET generatedContent ==
                    generateCommunityFile(parsed.data.textContent, parsed.data, t) IN
            /\ now' = t
            /\ IF ~Truthy(webhookUrl)
               THEN /\ Send(r, FailureResponse(Error(<<"Discord webhook URL not configured">>)),
                            <<"validate", "transform", "respond">>)
                    /\ UNCHANGED <<form, nposts>>
               ELSE /\ gen' = [gen EXCEPT ![r] = generatedContent]
                    /\ form' = [form EXCEPT ![r] =
                           <<[url |-> webhookUrl, file |-> generatedContent,
                              rename |-> parsed.data.rename]>>]
                    /\ nposts' = [nposts EXCEPT ![r] = @ + 1]
                    /\ steps' = [steps EXCEPT ![r] = @ \o <<"validate", "transform", "notify">>]
                    /\ pc' = [pc EXCEPT ![r] = "fetch"]
                    /\ UNCHANGED <<resp, nsent, upstream>>
    /\ UNCHANGED <<storeVars, webhookUrl, createLog, userLog, getVars, fnVars>>

\* the object literal the handler gives to storage.createCommunity
InsertCommunityOf(validatedData, generatedContent) ==
    [rename |-> validatedData.rename,
     robuxFund |-> validatedData.robuxFund,
     communitiesMember |-> validatedData.communitiesMember,
     ownerUsername |-> validatedData.ownerUsername,
     originalContent |-> validatedData.textContent,
     generatedContent |-> generatedContent]

\* Mutant of FetchResolve: response.ok is not looked at
FetchResolveAnyStatus(r, response, t) ==
    /\ pc[r] = "fetch"
    /\ form' = [form EXCEPT ![r] = <<>>]
    /\ createCommunity(r, InsertCommunityOf(Parse(body[r]).data, gen[r]), t)
    /\ now' = t
    /\ steps' = [steps EXCEPT ![r] =
           @ \o <<IF response.ok THEN "notify_ok" ELSE "notify_fail", "persist">>]
    /\ pc' = [pc EXCEPT ![r] = "stored"]
    /\ UNCHANGED <<users, currentUserId, webhookUrl, body, gen, upstream, resp, nsent,
                   nposts, userLog, getVars, fnVars>>

\* Mutant of FetchResolve: a response that is not ok makes the handler POST again
FetchResolveRetry(r, response, t) ==
    /\ pc[r] = "fetch"
    /\ IF response.ok
       THEN /\ form' = [form EXCEPT ![r] = <<>>]
            /\ createCommunity(r, InsertCommunityOf(Parse(body[r]).data, gen[r]), t)
            /\ now' = t
            /\ steps' = [steps EXCEPT ![r] = @ \o <<"notify_ok", "persist">>]
            /\ pc' = [pc EXCEPT ![r] = "stored"]
            /\ UNCHANGED nposts
       ELSE /\ nposts' = [nposts EXCEPT ![r] = @ + 1]
            /\ steps' = [steps EXCEPT ![r] = @ \o <<"notify_fail", "notify">>]
            /\ UNCHANGED <<form, pc, now, communities, currentCommunityId, createLog>>
    /\ UNCHANGED <<users, currentUserId, webhookUrl, body, gen, upstream, resp, nsent,
                   userLog, getVars, fnVars>>

\* fetch resolves. A response that is not ok: sendToDiscordWebhook goes on to await
\* response.text(). An ok response: sendToDiscordWebhook returns, the handler
\* resumes and calls storage.createCommunity, whose body runs to its end (reading
\* the clock at t) before the handler is suspended on its promise.
FetchResolve(r, response, t) ==
    /\ pc[r] = "fetch"
    /\ form' = [form EXCEPT ![r] = <<>>]
    /\ IF response.ok
       THEN /\ createCommunity(r, InsertCommunityOf(Parse(body[r]).data, gen[r]), t)
            /\ now' = t
            /\ steps' = [steps EXCEPT ![r] = @ \o <<"notify_ok", "persist">>]
            /\ pc' = [pc EXCEPT ![r] = "stored"]
            /\ UNCHANGED upstream
       ELSE /\ pc' = [pc EXCEPT ![r] = "text"]
            /\ upstream' = [upstream EXCEPT ![r] = response]
            /\ steps' = [steps EXCEPT ![r] = Append(@, "notify_fail")]
            /\ UNCHANGED <<now, communities, currentCommunityId, createLog>>
    /\ UNCHANGED <<users, currentUserId, webhookUrl, body, gen, resp, nsent, nposts,
                   userLog, getVars, fnVars>>

\* Mutant of FetchReject: the handler has no catch, the rejection leaves it and
\* no response is sent
FetchRejectUncaught(r, message) ==
    /\ pc[r] = "fetch"
    /\ form' = [form EXCEPT ![r] = <<>>]
    /\ gen' = [gen EXCEPT ![r] = <<>>]
    /\ steps' = [steps EXCEPT ![r] = Append(@, "notify_fail")]
    /\ pc' = [pc EXCEPT ![r] = "done"]
    /\ UNCHANGED <<storeVars, webhookUrl, now, body, upstream, resp, nsent, nposts,
                   createLog, userLog, getVars, fnVars>>

\* fetch rejects (the target is unreachable): both catch blocks run
FetchReject(r, message) ==
    /\ pc[r] = "fetch"
    /\ form' = [form EXCEPT ![r] = <<>>]
    /\ Send(r, FailureResponse(SendFailure(Error(message))), <<"notify_fail", "respond">>)
    /\ UNCHANGED <<storeVars, webhookUrl, now, body, nposts, createLog, userLog,
                   getVars, fnVars>>

\* response.text() resolves: the Discord API error is thrown, both catch blocks run
TextResolve(r, errorText) ==
    /\ pc[r] = "text"
    /\ Send(r, FailureResponse(SendFailure(DiscordApiError(upstream[r], errorText))),
            <<"respond">>)
    /\ UNCHANGED <<storeVars, webhookUrl, now, body, form, nposts, createLog, userLog,
                   getVars, fnVars>>

\* response.text() rejects: both catch blocks run
TextReject(r, message) ==
    /\ pc[r] = "text"
    /\ Send(r, FailureResponse(SendFailure(Error(message))), <<"respond">>)
    /\ UNCHANGED <<storeVars, webhookUrl, now, body, form, nposts, createLog, userLog,
                   getVars, fnVars>>

\* Mutant of Respond: the identifier sent is the one of the newest record of the
\* store, not the one of the record createCommunity returned to this request
RespondNewest(r) ==
    /\ pc[r] = "stored"
    /\ Send(r, SuccessResponse(createLog[Len(createLog)].id), <<"respond">>)
    /\ UNCHANGED <<storeVars, webhookUrl, now, body, form, nposts, createLog, userLog,
                   getVars, fnVars>>

\* the handler resumes with the community createCommunity returned and responds
Respond(r) ==
    /\ pc[r] = "stored"
    /\ LET mine == SelectSeq(createLog, LAMBDA c : c.req = r) IN
       Send(r, SuccessResponse(mine[Len(mine)].id), <<"respond">>)
    /\ UNCHANGED <<storeVars, webhookUrl, now, body, form, nposts, createLog, userLog,
                   getVars, fnVars>>

\* ------------------------------------------------------------------------
\* server/routes.ts: the GET /api/communities handler
\* ------------------------------------------------------------------------

\* the handler calls storage.getAllCommunities(), which builds the array, and is
\* suspended on its promise
GetStart ==
    /\ getPc \in {"idle", "done"}
    /\ getList' = getAllCommunities
    /\ getPc' = "await"
    /\ UNCHANGED <<storeVars, webhookUrl, now, reqVars, createLog, userLog, fnVars>>

\* res.json(communities)
GetRespond ==
    /\ getPc = "await"
    /\ getPc' = "done"
    /\ UNCHANGED <<storeVars, webhookUrl, now, reqVars, createLog, userLog, getList,
                   fnVars>>

\* the response of the last GET, once sent
GetResponse ==
    [status |-> 200, list |-> getList]

\* ------------------------------------------------------------------------
\* The server: MaxReq POST requests and GET requests, interleaved at their
\* suspension points
\* ------------------------------------------------------------------------

NotCalled == [time |-> 0, gen |-> <<>>]

FnOff ==
    /\ fnPc = "off"
    /\ fnBody = MakeBody(Undefined, Undefined)
    /\ fnParsed = Parse(MakeBody(Undefined, Undefined))
    /\ fnTime = 0
    /\ fnGen = <<>>
    /\ fnAgain = NotCalled

Init ==
    /\ users = <<>>             \* constructor: new Map()
    /\ communities = <<>>       \* constructor: new Map()
    /\ currentUserId = 1
    /\ currentCommunityId = 1
    /\ webhookUrl \in {NoUrl, SomeUrl}
    /\ now = 0
    /\ pc = [r \in Reqs |-> "idle"]
    /\ body = [r \in Reqs |-> MakeBody(Undefined, Undefined)]
    /\ gen = [r \in Reqs |-> <<>>]
    /\ upstream = [r \in Reqs |-> NoUpstream]
    /\ resp = [r \in Reqs |-> NoResponse]
    /\ steps = [r \in Reqs |-> <<>>]
    /\ nsent = [r \in Reqs |-> 0]
    /\ form = [r \in Reqs |-> <<>>]
    /\ nposts = [r \in Reqs |-> 0]
    /\ createLog = <<>>
    /\ userLog = <<>>
    /\ getPc = "idle"
    /\ getList = <<>>
    /\ FnOff

Next ==
    \/ \E r \in Reqs, b \in Bodies, t \in ClockReadings : Post(r, b, t)
    \/ \E r \in Reqs, u \in UpstreamResponses, t \in ClockReadings : FetchResolve(r, u, t)
    \/ \E r \in Reqs, m \in RejectMessages : FetchReject(r, m)
    \/ \E r \in Reqs, x \in UpstreamTexts : TextResolve(r, x)
    \/ \E r \in Reqs, m \in TextRejectMessages : TextReject(r, m)
    \/ \E r \in Reqs : Respond(r)
    \/ GetStart
    \/ GetRespond

Spec == Init /\ [][Next]_vars

\* ------------------------------------------------------------------------
\* The store alone: a caller makes up to MaxCalls calls of createUser and of
\* createCommunity, one after another
\* ------------------------------------------------------------------------

\* what the direct calls of createCommunity insert
InsertCommunities ==
    {InsertCommunityOf([rename |-> n, robuxFund |-> <<"1">>, communitiesMember |-> <<"m">>,
                        ownerUsername |-> <<"o">>, textContent |-> <<"a">>], <<"g">>)
       : n \in {<<"A">>, <<"B">>}}

CreateUser(insertUser) ==
    /\ Len(userLog) < MaxCalls
    /\ createUser(insertUser)
    /\ UNCHANGED <<communities, currentCommunityId, webhookUrl, now, reqVars,
                   createLog, getVars, fnVars>>

\* the caller is not a request of the server: it is logged as request 0
CreateCommunity(insertCommunity, t) ==
    /\ Len(createLog) < MaxCalls
    /\ createCommunity(0, insertCommunity, t)
    /\ now' = t
    /\ UNCHANGED <<users, currentUserId, webhookUrl, reqVars, userLog, getVars, fnVars>>

NextStore ==
    \/ \E u \in InsertUsers : CreateUser(u)
    \/ \E c \in InsertCommunities, t \in ClockReadings : CreateCommunity(c, t)

SpecStore == Init /\ [][NextStore]_vars

\* ------------------------------------------------------------------------
\* The server with its scheduling: the event loop resumes a handler once the
\* promise it awaits is settled. The promise of createCommunity is resolved when
\* it is returned; fetch and response.text() settle, by an answer or by the
\* transport giving up.
\* ------------------------------------------------------------------------

\* the fetch of request r settles
FetchSettles(r) ==
    \/ \E u \in UpstreamResponses, t \in ClockReadings : FetchResolve(r, u, t)
    \/ \E m \in RejectMessages : FetchReject(r, m)

\* the response.text() of request r settles
TextSettles(r) ==
    \/ \E x \in UpstreamTexts : TextResolve(r, x)
    \/ \E m \in TextRejectMessages : TextReject(r, m)

Scheduling ==
    \A r \in Reqs :
        /\ WF_vars(FetchSettles(r))
        /\ WF_vars(TextSettles(r))
        /\ WF_vars(Respond(r))

\* the bodies of the requests whose termination is followed: one that passes
\* validation and one that fails it
LiveBodies ==
    {MakeBody(StringValue(RenameA), StringValue(TextA)),
     MakeBody(Undefined, StringValue(TextA))}

\* the POST handlers alone
NextLive ==
    \/ \E r \in Reqs, b \in LiveBodies, t \in ClockReadings : Post(r, b, t)
    \/ \E r \in Reqs : FetchSettles(r)
    \/ \E r \in Reqs : TextSettles(r)
    \/ \E r \in Reqs : Respond(r)

SpecLive == Init /\ [][NextLive]_vars /\ Scheduling

\* ------------------------------------------------------------------------
\* The POST handlers alone, interleaved at their suspension points
\* ------------------------------------------------------------------------

NextPost ==
    \/ \E r \in Reqs, b \in Bodies, t \in ClockReadings : Post(r, b, t)
    \/ \E r \in Reqs, u \in UpstreamResponses, t \in ClockReadings : FetchResolve(r, u, t)
    \/ \E r \in Reqs, m \in RejectMessages : FetchReject(r, m)
    \/ \E r \in Reqs, x \in UpstreamTexts : TextResolve(r, x)
    \/ \E r \in Reqs, m \in TextRejectMessages : TextReject(r, m)
    \/ \E r \in Reqs : Respond(r)

SpecPost == Init /\ [][NextPost]_vars

\* ------------------------------------------------------------------------
\* The server given bodies that carry a discordWebhook key
\* ------------------------------------------------------------------------

NextHook ==
    \/ \E r \in Reqs, b \in HookBodies, t \in ClockReadings : Post(r, b, t)
    \/ \E r \in Reqs, u \in UpstreamResponses, t \in ClockReadings : FetchResolve(r, u, t)
    \/ \E r \in Reqs, m \in RejectMessages : FetchReject(r, m)
    \/ \E r \in Reqs, x \in UpstreamTexts : TextResolve(r, x)
    \/ \E r \in Reqs, m \in TextRejectMessages : TextReject(r, m)
    \/ \E r \in Reqs : Respond(r)
    \/ GetStart
    \/ GetRespond

SpecHook == Init /\ [][NextHook]_vars

\* ------------------------------------------------------------------------
\* The store under direct calls, with GET /api/communities reading it in between
\* ------------------------------------------------------------------------

NextStoreRead ==
    \/ \E u \in InsertUsers : CreateUser(u)
    \/ \E c \in InsertCommunities, t \in ClockReadings : CreateCommunity(c, t)
    \/ GetStart
    \/ GetRespond

SpecStoreRead == Init /\ [][NextStoreRead]_vars

\* ------------------------------------------------------------------------
\* The pure functions alone: createCommunitySchema.parse on a body, then
\* generateCommunityFile on the validated data
\* ------------------------------------------------------------------------

TextAlphabet == {"a", " ", "\n"}

\* the strings over TextAlphabet of length at most n
Texts(n) ==
    UNION {[1..k -> TextAlphabet] : k \in 0..n}

FnBodies ==
    {[rename |-> rn, robuxFund |-> rf, communitiesMember |-> cm, ownerUsername |-> ou,
      textContent |-> tc]
       : rn \in {Undefined, NotAString, StringValue(<<>>), StringValue(RenameA),
                 StringValue(RenameTwoLines)},
         rf \in {Undefined, StringValue(<<>>), StringValue(<<"1", "0", "0">>)},
         cm \in {Undefined, StringValue(<<>>), StringValue(<<"m", "1">>)},
         ou \in {Undefined, StringValue(<<>>), StringValue(<<"o">>)},
         tc \in {Undefined} \cup {StringValue(x) : x \in Texts(MaxLen)}}

ServerIdle ==
    /\ users = <<>>
    /\ communities = <<>>
    /\ currentUserId = 1
    /\ currentCommunityId = 1
    /\ webhookUrl = NoUrl
    /\ now = 0
    /\ pc = [r \in Reqs |-> "idle"]
    /\ body = [r \in Reqs |-> MakeBody(Undefined, Undefined)]
    /\ gen = [r \in Reqs |-> <<>>]
    /\ upstream = [r \in Reqs |-> NoUpstream]
    /\ form = [r \in Reqs |-> <<>>]
    /\ resp = [r \in Reqs |-> NoResponse]
    /\ steps = [r \in Reqs |-> <<>>]
    /\ nsent = [r \in Reqs |-> 0]
    /\ nposts = [r \in Reqs |-> 0]
    /\ createLog = <<>>
    /\ userLog = <<>>
    /\ getPc = "idle"
    /\ getList = <<>>

InitFn ==
    /\ ServerIdle
    /\ fnPc = "in"
    /\ fnBody \in FnBodies
    /\ fnTime \in 0..MaxClock
    /\ fnParsed = Parse(MakeBody(Undefined, Undefined))
    /\ fnGen = <<>>
    /\ fnAgain = NotCalled

FnParse ==
    /\ fnPc = "in"
    /\ fnParsed' = Parse(fnBody)
    /\ fnPc' = "parsed"
    /\ UNCHANGED <<storeVars, webhookUrl, now, reqVars, createLog, userLog, getVars,
                   fnBody, fnTime, fnGen, fnAgain>>

FnGenerate ==
    /\ fnPc = "parsed"
    /\ fnParsed.ok
    /\ fnGen' = generateCommunityFile(fnParsed.data.textContent, fnParsed.data, fnTime)
    /\ fnPc' = "generated"
    /\ UNCHANGED <<storeVars, webhookUrl, now, reqVars, createLog, userLog, getVars,
                   fnBody, fnTime, fnParsed, fnAgain>>

\* generateCommunityFile is called once more with the same arguments, the clock
\* reading t
FnGenerateAgain(t) ==
    /\ fnPc = "generated"
    /\ fnAgain' = [time |-> t,
                   gen |-> generateCommunityFile(fnParsed.data.textContent, fnParsed.data, t)]
    /\ fnPc' = "again"
    /\ UNCHANGED <<storeVars, webhookUrl, now, reqVars, createLog, userLog, getVars,
                   fnBody, fnTime, fnParsed, fnGen>>

NextFn ==
    \/ FnParse
    \/ FnGenerate
    \/ \E t \in fnTime..MaxClock : FnGenerateAgain(t)

SpecFn == InitFn /\ [][NextFn]_vars

\* ------------------------------------------------------------------------
\* Properties
\* ------------------------------------------------------------------------

Range(f) == {f[i] : i \in DOMAIN f}

\* the number of entries of the log `seq` equal to x
Count(seq, x) == Cardinality({i \in DOMAIN seq : seq[i] = x})

\* the identifiers createCommunity handed to request r
CreatedBy(r) == {createLog[j].id : j \in {i \in DOMAIN createLog : createLog[i].req = r}}

\* the stored or listed records that request r created
RecordsOf(r) ==
    {c \in Range(getAllCommunities) \cup Range(getList) : c.id \in CreatedBy(r)}

\* request r has run and its body fails createCommunitySchema
Rejected(r) == pc[r] # "idle" /\ ~Parse(body[r]).ok

\* the webhook POST of request r failed: fetch resolved with a response that is not
\* ok, or rejected
WebhookFailed(r) == "notify_fail" \in Range(steps[r])

\* C1: a POST whose body fails schema validation is answered 400 with
\* {success: false, message: "Validation error", errors}, issues no webhook POST and
\* never calls createCommunity: no stored or listed record comes from it.
C1_RejectedHasNoSideEffect ==
    \A r \in Reqs : Rejected(r) =>
        /\ pc[r] = "done"
        /\ resp[r].status = 400
        /\ resp[r].success = FALSE
        /\ resp[r].message = <<"Validation error">>
        /\ resp[r].errors # <<>>
        /\ nsent[r] = 1
        /\ nposts[r] = 0
        /\ form[r] = <<>>
        /\ CreatedBy(r) = {}
        /\ RecordsOf(r) = {}
        /\ Len(communities) = Len(createLog)

\* a request was rejected while the store holds a record, and a GET listed it
C1_Witness ==
    \E r \in Reqs :
        /\ Rejected(r)
        /\ resp[r].status = 400
        /\ Len(communities) > 0
        /\ getPc = "done"
        /\ Len(getList) > 0

\* C2: a POST that passes validation with the webhook URL configured and whose
\* webhook POST fails is answered 500 and never calls createCommunity: its record
\* is in no later GET /api/communities.
C2_WebhookFailureNotPersisted ==
    \A r \in Reqs : WebhookFailed(r) =>
        /\ Parse(body[r]).ok
        /\ Truthy(webhookUrl)
        /\ pc[r] \in {"text", "done"}
        /\ pc[r] = "done" => (resp[r].status = 500 /\ nsent[r] = 1)
        /\ CreatedBy(r) = {}
        /\ RecordsOf(r) = {}
        /\ Len(communities) = Len(createLog)

\* a webhook POST failed, its request was answered, and a later GET listed a record
C2_Witness ==
    \E r \in Reqs :
        /\ WebhookFailed(r)
        /\ pc[r] = "done"
        /\ resp[r].status = 500
        /\ getPc = "done"
        /\ Len(getList) > 0

\* the steps of a request that is answered 200, in order
FullRun == <<"validate", "transform", "notify", "notify_ok", "persist", "respond">>

\* the steps of the requests that end early, in order
EarlyRuns ==
    {<<"validate", "respond">>,
     <<"validate", "transform", "respond">>,
     <<"validate", "transform", "notify", "notify_fail", "respond">>}

Prefixes(seq) == {SubSeq(seq, 1, k) : k \in 0..Len(seq)}

\* the step logs a handler can have: the prefixes of the runs
AllowedSteps == Prefixes(FullRun) \cup UNION {Prefixes(e) : e \in EarlyRuns}

\* C3: the steps of one request happen in the order validate, transform, notify,
\* persist, respond, none repeated: the webhook POST is issued only after
\* validation succeeded, createCommunity is called only after the webhook POST
\* returned success, and 200 is sent only after createCommunity returned.
C3_LinearSteps ==
    \A r \in Reqs :
        /\ steps[r] \in AllowedSteps
        /\ nposts[r] = Count(steps[r], "notify")
        /\ Cardinality(CreatedBy(r)) = Count(steps[r], "persist")
        /\ Len(SelectSeq(createLog, LAMBDA c : c.req = r)) = Count(steps[r], "persist")
        /\ nsent[r] = Count(steps[r], "respond")
        /\ nposts[r] > 0 => Parse(body[r]).ok
        /\ CreatedBy(r) # {} => SubSeq(steps[r], 1, 4) = SubSeq(FullRun, 1, 4)
        /\ resp[r].status = 200 => steps[r] = FullRun

\* one request went through every step and was answered 200, another ended early
C3_Witness ==
    \E r, q \in Reqs :
        /\ steps[r] = FullRun
        /\ resp[r].status = 200
        /\ steps[q] = <<"validate", "transform", "notify", "notify_fail", "respond">>

\* C4: the identifiers createCommunity returns, in call order, are strictly
\* increasing (hence pairwise distinct, none handed out twice); likewise createUser.
C4_IdentifiersIncrease ==
    /\ \A i, j \in DOMAIN createLog : i < j => createLog[i].id < createLog[j].id
    /\ \A i, j \in DOMAIN userLog : i < j => userLog[i].id < userLog[j].id

\* both kinds of record were created at least twice
C4_Witness ==
    /\ Len(createLog) >= 2
    /\ Len(userLog) >= 2

\* C5: whatever the interleaving of the requests in flight, no two stored records
\* share an identifier and none overwrites another: every createCommunity call
\* left its own record in the store, under the identifier it returned.
C5_ConcurrentIdentifiersSafe ==
    /\ \A i, j \in DOMAIN communities :
           i # j => /\ communities[i].key # communities[j].key
                    /\ communities[i].value.id # communities[j].value.id
    /\ \A i \in DOMAIN communities : communities[i].value.id = communities[i].key
    /\ Len(communities) = Len(createLog)
    /\ \A j \in DOMAIN createLog :
           /\ MapHas(communities, createLog[j].id)
           /\ createLog[j].req \in Reqs =>
                  LET c == MapGet(communities, createLog[j].id)
                      b == body[createLog[j].req] IN
                  /\ c.rename = b.rename.str
                  /\ c.originalContent = b.textContent.str

\* two requests are suspended on createCommunity at once, the later arrival having
\* been given the smaller identifier
C5_Witness ==
    /\ MaxReq >= 2
    /\ pc[1] = "stored"
    /\ pc[2] = "stored"
    /\ Len(createLog) >= 2
    /\ createLog[1].req = 2
    /\ createLog[2].req = 1
    /\ body[1] # body[2]

\* the key of body is absent, or holds the empty string
MissingOrEmpty(v) == v.kind = "undefined" \/ (v.kind = "string" /\ v.str = <<>>)

\* the entries of the errors collection that name `field`
EntriesFor(issues, field) == {e \in Range(issues) : e.path = field}

\* C6: on failure the errors collection has an entry naming each required field
\* that is missing or empty (for a missing rename, with the message "Rename is
\* required") and no entry for a field that is present and not empty.
C6_EntryPerOffendingField ==
    (fnPc = "parsed" /\ ~fnParsed.ok) =>
        \A f \in Range(FieldNames) :
            /\ MissingOrEmpty(fnBody[f]) => EntriesFor(fnParsed.issues, f) # {}
            /\ (fnBody[f].kind = "string" /\ fnBody[f].str # <<>>)
                   => EntriesFor(fnParsed.issues, f) = {}
            /\ (f = "rename" /\ fnBody[f].kind = "undefined")
                   => \E e \in EntriesFor(fnParsed.issues, f) :
                          e.message = "Rename is required"

\* ------------------------------------------------------------------------
\* Reading a generated report back
\* ------------------------------------------------------------------------

RECURSIVE DigitPrefixLen(_)
\* the number of decimal digits `line` starts with
DigitPrefixLen(line) ==
    IF line # <<>> /\ Head(line) \in DigitChars
    THEN 1 + DigitPrefixLen(Tail(line))
    ELSE 0

\* `line` reads "<n>. <rest>"
IsNumberedLine(line) ==
    LET k == DigitPrefixLen(line) IN
    /\ k >= 1
    /\ Len(line) >= k + 2
    /\ line[k + 1] = "."
    /\ line[k + 2] = " "

DigitValue(c) == CHOOSE d \in 0..9 : Digits[d + 1] = c

RECURSIVE DecimalValue(_)
DecimalValue(digits) ==
    IF digits = <<>> THEN 0
    ELSE 10 * DecimalValue(SubSeq(digits, 1, Len(digits) - 1))
         + DigitValue(digits[Len(digits)])

\* the <n> of a numbered line
LineNumber(line) == DecimalValue(SubSeq(line, 1, DigitPrefixLen(line)))

\* a numbered line without its "<n>. " prefix
StripNumber(line) == SubSeq(line, DigitPrefixLen(line) + 3, Len(line))

\* the numbered lines of a report, in order
NumberedLines(report) == SelectSeq(Split(report, "\n"), IsNumberedLine)

\* a line with nothing but whitespace in it
IsBlank(line) == \A i \in DOMAIN line : line[i] \in WhiteChars

\* the lines of a text that are not blank, in order
NonBlankLines(text) == SelectSeq(Split(text, "\n"), LAMBDA l : ~IsBlank(l))

\* the last line of a report (the report ends with a line break)
SummaryLine(report) ==
    LET lines == Split(report, "\n") IN lines[Len(lines) - 1]

\* C7: for every text that passes validation, the output of generateCommunityFile
\* has exactly one numbered line per input line that is not blank, numbered
\* 1, 2, ..., k in that order, and its summary line reads "# Total Communities: k".
C7_OneNumberedLinePerNonBlankLine ==
    fnPc = "generated" =>
        LET numbered == NumberedLines(fnGen)
            k == Len(NonBlankLines(fnParsed.data.textContent)) IN
        /\ Len(numbered) = k
        /\ \A i \in DOMAIN numbered : LineNumber(numbered[i]) = i
        /\ SummaryLine(fnGen) = LitTotal \o NumberToString(k)

\* C8: for every persisted record, the numbered lines of its generatedContent
\* without their "<n>. " prefix are exactly the non-blank lines of its
\* originalContent, in order.
C8_RoundTrip ==
    \A i \in DOMAIN communities :
        LET c == communities[i].value
            numbered == NumberedLines(c.generatedContent)
            kept == NonBlankLines(c.originalContent) IN
        /\ Len(numbered) = Len(kept)
        /\ \A j \in DOMAIN numbered : j <= Len(kept) => StripNumber(numbered[j]) = kept[j]

\* C9: createUser fails when the username is already stored, so no two stored
\* users have the same username.
C9_UsernamesUnique ==
    /\ \A i, j \in DOMAIN users :
           i # j => users[i].value.username # users[j].value.username
    /\ \A i, j \in DOMAIN userLog :
           i # j => userLog[i].username # userLog[j].username

\* what the webhook service said: status, status text, response body
UpstreamDetails ==
    UNION {Range(u.status) \cup Range(u.statusText) : u \in UpstreamResponses}
    \cup UNION {Range(x) : x \in UpstreamTexts}

\* C10: the message of a 500 response is generic: nothing of what the webhook
\* service answered (status, status text, response body) is in it.
C10_GenericFailureMessage ==
    \A r \in Reqs :
        resp[r].status = 500 => Range(resp[r].message) \cap UpstreamDetails = {}

\* ------------------------------------------------------------------------
\* The reach of the line break in a metadata field: with none in the label, the
\* numbered lines of a report are the non-blank lines of its text
\* ------------------------------------------------------------------------

HasLineBreak(str) == "\n" \in Range(str)

\* the report of a submission whose label holds no line break has one numbered
\* line per non-blank line of the text, numbered from 1, and reads back to them
NumberedListingWithoutLineBreakInLabel ==
    (fnPc = "generated" /\ ~HasLineBreak(fnParsed.data.rename)) =>
        LET numbered == NumberedLines(fnGen)
            kept == NonBlankLines(fnParsed.data.textContent) IN
        /\ Len(numbered) = Len(kept)
        /\ \A i \in DOMAIN numbered : LineNumber(numbered[i]) = i
        /\ \A i \in DOMAIN numbered : StripNumber(numbered[i]) = kept[i]
        /\ SummaryLine(fnGen) = LitTotal \o NumberToString(Len(kept))

\* ------------------------------------------------------------------------
\* The discordWebhook key of a body
\* ------------------------------------------------------------------------

\* the body carries a discordWebhook the webhook variant of the schema rejects:
\* no URL, or a string without the segment discord.com/api/webhooks
CarriesBadWebhook(b) ==
    /\ "discordWebhook" \in DOMAIN b
    /\ WebhookIssues(b.discordWebhook) # <<>>

\* C11: a POST whose body carries a discordWebhook that is no valid URL, or that
\* does not contain discord.com/api/webhooks, ends with 400 and an errors entry for
\* that field, and issues no webhook POST.
C11_BadWebhookRejected ==
    \A r \in Reqs : (pc[r] # "idle" /\ CarriesBadWebhook(body[r])) =>
        /\ pc[r] = "done"
        /\ resp[r].status = 400
        /\ \E e \in Range(resp[r].errors) : e.path = "discordWebhook"
        /\ nposts[r] = 0

\* ------------------------------------------------------------------------
\* Termination of the POST handler
\* ------------------------------------------------------------------------

\* the handler of request r has ended with exactly one response, 200, 400 or 500
Answered(r) ==
    /\ pc[r] = "done"
    /\ nsent[r] = 1
    /\ resp[r].status \in {200, 400, 500}

\* C12: every POST /api/communities that was received is eventually answered, with
\* exactly one response whose status is 200, 400 or 500, whichever step fails; it
\* is never answered twice, and it stays answered.
C12_EveryRequestAnswered ==
    \A r \in Reqs :
        /\ [](nsent[r] <= 1)
        /\ (pc[r] # "idle") ~> Answered(r)
        /\ [](Answered(r) => []Answered(r))

\* one request was answered 200 and another 500 after the webhook service refused it
C12_Witness ==
    \E r, q \in Reqs :
        /\ Answered(r) /\ resp[r].status = 200
        /\ Answered(q) /\ resp[q].status = 500
        /\ Includes(resp[q].message, <<"Discord API error: ">>)

\* ------------------------------------------------------------------------
\* Responses and records
\* ------------------------------------------------------------------------

\* the record c holds what the body b submitted
HoldsSubmission(c, b) ==
    /\ c.rename = b.rename.str
    /\ c.robuxFund = b.robuxFund.str
    /\ c.communitiesMember = b.communitiesMember.str
    /\ c.ownerUsername = b.ownerUsername.str
    /\ c.originalContent = b.textContent.str

\* the requests whose handler called createCommunity
Persisted == {r \in Reqs : "persist" \in Range(steps[r])}

\* C13: a POST answered 200 created exactly one record, and the communityId of its
\* response is the identifier of that record: getCommunity(communityId) returns a
\* record with the metadata and the text of that request. A POST answered 400 or
\* 500 created none, and the store holds one record per request that passed the
\* persist step.
C13_ResponseNamesOwnRecord ==
    /\ \A r \in Reqs :
           /\ resp[r].status = 200 =>
                  /\ CreatedBy(r) = {resp[r].communityId}
                  /\ Len(SelectSeq(createLog, LAMBDA c : c.req = r)) = 1
                  /\ getCommunity(resp[r].communityId) # <<>>
                  /\ getCommunity(resp[r].communityId)[1].id = resp[r].communityId
                  /\ HoldsSubmission(getCommunity(resp[r].communityId)[1], body[r])
           /\ resp[r].status \in {400, 500} => CreatedBy(r) = {}
    /\ Len(communities) = Cardinality(Persisted)

\* two requests with different bodies were answered 200, the later arrival with the
\* smaller communityId
C13_Witness ==
    \E r, q \in Reqs :
        /\ r < q
        /\ resp[r].status = 200
        /\ resp[q].status = 200
        /\ resp[q].communityId < resp[r].communityId
        /\ body[r] # body[q]

\* ------------------------------------------------------------------------
\* The webhook URL setting
\* ------------------------------------------------------------------------

\* request r has run and its body passes createCommunitySchema
Accepted(r) == pc[r] # "idle" /\ Parse(body[r]).ok

\* C14: with DISCORD_WEBHOOK_URL absent the server runs all the same, and every
\* POST that passes validation is answered 500 at once, with no webhook POST issued
\* and no record persisted.
C14_MissingUrlFailsRequest ==
    ~Truthy(webhookUrl) =>
        /\ \A r \in Reqs : Accepted(r) =>
               /\ pc[r] = "done"
               /\ nsent[r] = 1
               /\ resp[r].status = 500
               /\ resp[r].success = FALSE
               /\ nposts[r] = 0
               /\ form[r] = <<>>
               /\ CreatedBy(r) = {}
        /\ communities = <<>>
        /\ createLog = <<>>
        /\ currentCommunityId = 1

\* without the setting, one valid request was answered 500 and one invalid request
\* 400
C14_Witness ==
    /\ ~Truthy(webhookUrl)
    /\ \E r, q \in Reqs :
           /\ Accepted(r) /\ resp[r].status = 500
           /\ Rejected(q) /\ resp[q].status = 400

\* ------------------------------------------------------------------------
\* createCommunity and getCommunity
\* ------------------------------------------------------------------------

\* the identifiers a caller may ask getCommunity for
CandidateIds == 0..(Len(createLog) + 2)

\* C15: createCommunity returns the record it stored, with an identifier no earlier
\* call returned and with the clock reading of the call as createdAt; from then on
\* getCommunity(id) returns that same record, and getCommunity of an identifier
\* that was never assigned returns undefined.
C15_CreateThenGet ==
    /\ \A j \in DOMAIN createLog :
           LET returned == createLog[j].community IN
           /\ \A i \in 1..(j - 1) : createLog[i].community.id # returned.id
           /\ returned.id >= 1
           /\ returned.createdAt \in 0..now
           /\ \A i \in 1..(j - 1) : createLog[i].community.createdAt <= returned.createdAt
           /\ getCommunity(returned.id) = <<returned>>
    /\ \A id \in CandidateIds :
           (\A j \in DOMAIN createLog : createLog[j].community.id # id)
               => getCommunity(id) = <<>>

\* two records created at different clock readings, both still returned by
\* getCommunity, and an identifier not assigned yet
C15_Witness ==
    /\ Len(createLog) >= 2
    /\ createLog[1].community.createdAt < createLog[2].community.createdAt
    /\ getCommunity(1) = <<createLog[1].community>>
    /\ getCommunity(2) = <<createLog[2].community>>
    /\ createLog[1].community.rename # createLog[2].community.rename
    /\ getCommunity(Len(createLog) + 1) = <<>>

\* ------------------------------------------------------------------------
\* Immutability of the stored records
\* ------------------------------------------------------------------------

\* every entry of the Map m is an entry of the Map n, at the same place, under the
\* same key and with the same value
KeepsEntries(m, n) ==
    /\ Len(m) <= Len(n)
    /\ \A i \in DOMAIN m : n[i] = m[i]

\* C16: stored records are never changed and never deleted: whatever operation
\* comes next, every submission record and every user of the store is still there
\* afterwards, under the same identifier and with every field unchanged.
C16_RecordsImmutable ==
    [][/\ KeepsEntries(communities, communities')
       /\ KeepsEntries(users, users')
       /\ \A i \in DOMAIN communities :
              getCommunity(communities[i].key) = <<communities[i].value>>
       /\ \A i \in DOMAIN users :
              getUser(users[i].key) = <<users[i].value>>]_vars

\* the store holds two users and two submission records that differ, all four
\* returned by the lookups, and a GET has listed the records
C16_Witness ==
    /\ Len(users) >= 2
    /\ Len(communities) >= 2
    /\ communities[1].value.rename # communities[2].value.rename
    /\ users[1].value.username # users[2].value.username
    /\ getUser(1) = <<users[1].value>>
    /\ getCommunity(1) = <<communities[1].value>>
    /\ getPc = "done"
    /\ Len(getList) >= 1

\* ------------------------------------------------------------------------
\* Determinism of the transform
\* ------------------------------------------------------------------------

\* the lines of a report after its first, the one with the timestamp
LinesAfterHeader(report) == Tail(Split(report, "\n"))

\* the first line of a report
HeaderLine(report) == Head(Split(report, "\n"))

\* C17: two calls of generateCommunityFile with the same text and the same
\* metadata, whatever the clock reads at each, give reports that are the same line
\* for line after the timestamp header line.
C17_SameLinesAfterHeader ==
    fnPc = "again" =>
        /\ LinesAfterHeader(fnAgain.gen) = LinesAfterHeader(fnGen)
        /\ Len(Split(fnAgain.gen, "\n")) = Len(Split(fnGen, "\n"))

\* the two calls read different times, their header lines differ, and the text has
\* two retained lines
C17_Witness ==
    /\ fnPc = "again"
    /\ fnAgain.time # fnTime
    /\ HeaderLine(fnAgain.gen) # HeaderLine(fnGen)
    /\ fnAgain.gen # fnGen
    /\ Len(RetainedLines(fnParsed.data.textContent)) >= 2
    /\ HasLineBreak(fnParsed.data.rename)

\* the reports of two stored records with the same text and metadata are the same
\* after the header line, however many records the store held when each was made
StoredReportsAgree ==
    \A i, j \in DOMAIN communities :
        LET c == communities[i].value
            d == communities[j].value IN
        (/\ i < j
         /\ c.originalContent = d.originalContent
         /\ c.rename = d.rename
         /\ c.robuxFund = d.robuxFund
         /\ c.communitiesMember = d.communitiesMember
         /\ c.ownerUsername = d.ownerUsername)
            => LinesAfterHeader(c.generatedContent) = LinesAfterHeader(d.generatedContent)

\* ------------------------------------------------------------------------
\* GET /api/communities
\* ------------------------------------------------------------------------

\* the records of the store, in the order of the Map
StoredRecords == [i \in DOMAIN communities |-> communities[i].value]

\* C18: GET /api/communities answers 200 with the records the store holds when the
\* handler reads it, every one of them and no other, and neither step of the
\* handler changes the store or a counter.
C18_GetIsPassThrough ==
    [][/\ (getPc # "await" /\ getPc' = "await") =>
              /\ getList' = StoredRecords
              /\ UNCHANGED storeVars
       /\ (getPc = "await" /\ getPc' = "done") =>
              /\ getList' = getList
              /\ GetResponse' = [status |-> 200, list |-> getList]
              /\ UNCHANGED storeVars]_vars

\* a GET was answered with the two different records the store holds
C18_Witness ==
    /\ getPc = "done"
    /\ Len(getList) = 2
    /\ getList = StoredRecords
    /\ getList[1] # getList[2]
    /\ getList[1].rename # getList[2].rename
    /\ currentCommunityId = 3

\* ------------------------------------------------------------------------
\* The identifiers in use
\* ------------------------------------------------------------------------

\* the identifiers of the records of the Map m, in the order of the Map
IdsOf(m) == [i \in DOMAIN m |-> m[i].value.id]

\* the Map m holds the identifiers 1..n, each under itself as key, in ascending
\* order, and the counter is n + 1
Contiguous(m, counter) ==
    /\ MapKeys(m) = 1..Len(m)
    /\ \A i \in DOMAIN m : m[i].key = i /\ m[i].value.id = i
    /\ counter = Len(m) + 1

\* C19: in every state of MemStorage the n stored submission records have the
\* identifiers 1..n and currentCommunityId is n + 1, likewise the users and
\* currentUserId; getAllCommunities returns the records in ascending identifier
\* order; and no step changes both the users (or their counter) and the
\* submission records (or their counter).
C19_ContiguousIdentifiers ==
    /\ [](/\ Contiguous(communities, currentCommunityId)
          /\ Contiguous(users, currentUserId)
          /\ \A i \in DOMAIN getAllCommunities : getAllCommunities[i].id = i
          /\ Len(getAllCommunities) = Len(communities))
    /\ [][/\ <<users, currentUserId>> # <<users', currentUserId'>>
              => UNCHANGED <<communities, currentCommunityId>>
          /\ <<communities, currentCommunityId>> # <<communities', currentCommunityId'>>
              => UNCHANGED <<users, currentUserId>>]_vars

\* users and submission records were created in turn: two users, three records
C19_Witness ==
    /\ IdsOf(users) = <<1, 2>>
    /\ IdsOf(communities) = <<1, 2, 3>>
    /\ currentUserId = 3
    /\ currentCommunityId = 4

====
